---- MODULE Spec2Model ----
(***************************************************************************)
(* A model of src/netconfig.py: the registry of "network interfaces"      *)
(* (NetworkConfigManager.interfaces, an insertion-ordered dict persisted   *)
(* to network_interfaces.json), the identifier allocator of               *)
(* add_interface, the status resolution of check_interface_status and the  *)
(* batch displays (summary, live monitor) of main.                         *)
(*                                                                         *)
(* Strings the code takes apart (identifiers, entity codes) are sequences  *)
(* of one-character strings, so that split('_'), startswith, the digit     *)
(* filter, int() and the f-string formatting are computed, not assumed.    *)
(* An insertion-ordered dict is a sequence of [key, name] records with     *)
(* pairwise distinct keys.                                                 *)
(***************************************************************************)
EXTENDS Integers, Sequences, FiniteSets, TLC

VARIABLES
    interfaces,   \* netmgr.interfaces: the in-memory registry
    config_file,  \* the content of network_interfaces.json: a mapping, or unreadable
    backups,      \* the contents of the network_interfaces_backup_*.json files, oldest first
    since_backup, \* <<the file as the latest backup copied it>> while only add, remove,
                  \* reset and restore commands have run since; <<>> otherwise
    op,           \* the command the session loop executed last
    ret,          \* what that command's manager call returned
    pre,          \* netmgr.interfaces as it was when that command began
    pre_file,     \* the configuration file as it was when that command began
    arg,          \* what the operator typed at that command's prompt
    save_failed,  \* some save_interfaces call of this session returned False
    last_save,    \* how the save_interfaces call of that command ended, "none" without one
    streak,       \* identifiers returned by the adds made in a row from an empty registry
    commands,     \* number of commands executed in this session
    df,           \* the window the provider returned to the last resolution
    info,         \* the result of the last check_interface_status call: <<>> or <<record>>
    pc,           \* where the session loop is: menu / summary / monitor / ...
    idx,          \* position of the batch loop in interfaces.keys()
    resolved,     \* identifiers the running batch has resolved, in order
    output_lines, \* the lines the running batch has built for this cycle
    table_lines,  \* the monitor's recorded line count (set after the first render)
    printed,      \* number of lines each finished cycle of the running batch printed
    cursor_up,    \* number of lines the last refresh moved the cursor up
    cycle         \* number of finished cycles of the running batch

vars == <<interfaces, config_file, backups, since_backup, op, ret, pre, pre_file, arg, save_failed, last_save,
          streak, commands,
          df, info, pc, idx, resolved, output_lines, table_lines, printed, cursor_up, cycle>>

registryVars == <<interfaces, config_file, backups, since_backup, pre, pre_file, arg,
                  save_failed, last_save, streak>>
resolveVars == <<df, info>>
batchVars == <<idx, resolved, output_lines, table_lines, printed, cursor_up, cycle>>

\* ------------------------------------------------------------------ bounds
\* commands per session in Spec and SpecLoaded
MaxCommands == 3
\* adds per session in SpecAlloc
MaxAdds == 7
\* monitor refresh cycles per monitor run
MaxCycles == 2
\* rows in a provider window
MaxRows == 2
\* prices and volumes are fixed-point numbers: Unit of them make 1
Unit == 2

\* ------------------------------------------------------------ string helpers
None == <<"None">>

Digits == {"0", "1", "2", "3", "4", "5", "6", "7", "8", "9"}

\* U+00B2, one of the characters str.isdigit accepts that are not decimal
\* digits (int() raises ValueError on it); spelled out because it is not ASCII
SuperscriptTwo == "SUPERSCRIPT TWO"

\* str.isdigit on one character
isdigit(c) == c \in Digits \/ c = SuperscriptTwo

DigitValue(c) ==
    CASE c = "0" -> 0 [] c = "1" -> 1 [] c = "2" -> 2 [] c = "3" -> 3 [] c = "4" -> 4
      [] c = "5" -> 5 [] c = "6" -> 6 [] c = "7" -> 7 [] c = "8" -> 8 [] c = "9" -> 9

DigitChar(d) ==
    CASE d = 0 -> "0" [] d = 1 -> "1" [] d = 2 -> "2" [] d = 3 -> "3" [] d = 4 -> "4"
      [] d = 5 -> "5" [] d = 6 -> "6" [] d = 7 -> "7" [] d = 8 -> "8" [] d = 9 -> "9"

\* the f-string conversion {next_num}: the decimal numeral of a non-negative int
RECURSIVE str(_)
str(n) == IF n < 10 THEN <<DigitChar(n)>> ELSE str(n \div 10) \o <<DigitChar(n % 10)>>

\* int(s) on a string of str.isdigit characters; the empty string and a
\* string with a non-decimal digit raise ValueError, which is the empty set
\* here (an optional value): {} or {n}
RECURSIVE IntOfDigits(_, _)
IntOfDigits(s, acc) ==
    IF s = <<>> THEN acc ELSE IntOfDigits(Tail(s), 10 * acc + DigitValue(Head(s)))

int(s) ==
    IF s = <<>> \/ \E i \in 1..Len(s) : s[i] \notin Digits THEN {} ELSE {IntOfDigits(s, 0)}

\* ''.join(filter(str.isdigit, s))
digits_of(s) == SelectSeq(s, isdigit)

\* s.split('_'): the list of the segments between underscores
RECURSIVE split(_)
split(s) ==
    IF \A i \in 1..Len(s) : s[i] # "_"
    THEN <<s>>
    ELSE LET i == CHOOSE j \in 1..Len(s) : s[j] = "_" /\ \A k \in 1..(j - 1) : s[k] # "_"
         IN  <<SubSeq(s, 1, i - 1)>> \o split(SubSeq(s, i + 1, Len(s)))

\* s.startswith(t)
startswith(s, t) == Len(t) <= Len(s) /\ SubSeq(s, 1, Len(t)) = t

\* ------------------------------------------------------------------ registry
\* interface_types of add_interface
interface_types ==
    << <<"e", "t", "h">>, <<"w", "l", "a", "n">>, <<"b", "r">>,
       <<"l", "o">>, <<"b", "o", "n", "d">>, <<"v", "l", "a", "n">> >>

\* interfaces.keys(), in insertion order
keys(d) == [i \in 1..Len(d) |-> d[i].key]

KeySet(d) == {d[i].key : i \in 1..Len(d)}

\* d[k] = v on an insertion-ordered dict: an existing key keeps its place and
\* takes the new value, a new key goes to the end
DictSet(d, k, v) ==
    IF k \in KeySet(d)
    THEN [i \in 1..Len(d) |-> IF d[i].key = k THEN [key |-> k, name |-> v] ELSE d[i]]
    ELSE Append(d, [key |-> k, name |-> v])

\* del d[k]
DictDel(d, k) == SelectSeq(d, LAMBDA e : e.key # k)

\* used_numbers with the split at '_' forgotten: the ticker's digits are read too
used_numbers_unsplit(d) ==
    UNION { int(digits_of(d[i].key)) :
              i \in {j \in 1..Len(d) :
                       \E t \in 1..Len(interface_types) :
                           startswith(d[j].key, interface_types[t])} }

\* used_numbers with a prefix that has no digit read as number 0
used_numbers_zero(d) ==
    UNION { IF digits_of(split(d[i].key)[1]) = <<>>
            THEN {0}
            ELSE int(digits_of(split(d[i].key)[1])) :
              i \in {j \in 1..Len(d) :
                       \E t \in 1..Len(interface_types) :
                           startswith(d[j].key, interface_types[t])} }

\* the used_numbers scan of add_interface: every key that starts with a known
\* type contributes the int of the digits of its part before the first '_';
\* a ValueError (no digit) is swallowed
used_numbers(d) ==
    UNION { int(digits_of(split(d[i].key)[1])) :
              i \in {j \in 1..Len(d) :
                       \E t \in 1..Len(interface_types) :
                           startswith(d[j].key, interface_types[t])} }

\* next_num = 0; while next_num in used_numbers: next_num += 1
RECURSIVE next_num_from(_, _)
next_num_from(n, used) == IF n \in used THEN next_num_from(n + 1, used) ELSE n

next_num(d) == next_num_from(0, used_numbers(d))

\* the type picked one place too far in the rotation
interface_type_shifted(n) == interface_types[((n + 1) % Len(interface_types)) + 1]

\* interface_types[next_num % len(interface_types)]
interface_type(n) == interface_types[(n % Len(interface_types)) + 1]

\* f"{interface_type}{next_num}_{ticker}"
interface_name(d, ticker) ==
    interface_type(next_num(d)) \o str(next_num(d)) \o <<"_">> \o ticker

\* name = f"<jongmok>_{ticker}" when no display name was given (the Korean
\* literals of the source are romanised here: display names are opaque values)
display_name(ticker, name) == IF name = None THEN <<"jongmok_">> \o ticker ELSE name

\* add_interface: the registry after self.interfaces[interface_name] = name
add_interface(d, ticker, name) ==
    DictSet(d, interface_name(d, ticker), display_name(ticker, name))

\* a removal that drops the newest entry instead of the named one
remove_interface_popitem(d, interface) ==
    IF interface \in KeySet(d) THEN SubSeq(d, 1, Len(d) - 1) ELSE d

\* remove_interface: the registry after the call
remove_interface(d, interface) ==
    IF interface \in KeySet(d) THEN DictDel(d, interface) ELSE d

\* remove_interface: the value it returns
remove_returns(d, interface) ==
    IF interface \in KeySet(d) THEN <<"True">> ELSE <<"False">>

\* how a save_interfaces call can end: the mapping is written; open() fails and
\* the file stays as it was; open() has truncated the file and the write fails,
\* which leaves text that is no mapping
SaveOutcomes == {"saved", "open_fails", "write_fails"}

\* the content of a file that holds the mapping d
file_of(d) == [readable |-> TRUE, mapping |-> d]

\* a save that reports success without writing
save_interfaces_skipped(file, d, outcome) == file

\* save_interfaces: the file after the call
save_interfaces(file, d, outcome) ==
    CASE outcome = "saved" -> file_of(d)
      [] outcome = "open_fails" -> file
      [] outcome = "write_fails" -> [readable |-> FALSE, mapping |-> <<>>]

\* the boolean save_interfaces returns
save_result(outcome) == IF outcome = "saved" THEN <<"True">> ELSE <<"False">>

c005930 == <<"0", "0", "5", "9", "3", "0">>
c000660 == <<"0", "0", "0", "6", "6", "0">>
c035420 == <<"0", "3", "5", "4", "2", "0">>
c035720 == <<"0", "3", "5", "7", "2", "0">>
c373220 == <<"3", "7", "3", "2", "2", "0">>
c207940 == <<"2", "0", "7", "9", "4", "0">>
c006400 == <<"0", "0", "6", "4", "0", "0">>
c051910 == <<"0", "5", "1", "9", "1", "0">>
c068270 == <<"0", "6", "8", "2", "7", "0">>

\* default_config of the reset command
default_config ==
    << [key |-> <<"e", "t", "h", "0", "_">> \o c005930, name |-> <<"Samsung Electronics">>],
       [key |-> <<"e", "t", "h", "1", "_">> \o c000660, name |-> <<"SK hynix">>],
       [key |-> <<"e", "t", "h", "2", "_">> \o c035420, name |-> <<"NAVER">>],
       [key |-> <<"e", "t", "h", "3", "_">> \o c035720, name |-> <<"Kakao">>],
       [key |-> <<"e", "t", "h", "4", "_">> \o c373220, name |-> <<"LG Energy Solution">>],
       [key |-> <<"w", "l", "a", "n", "0", "_">> \o c207940, name |-> <<"Samsung Biologics">>],
       [key |-> <<"w", "l", "a", "n", "1", "_">> \o c006400, name |-> <<"Samsung SDI">>],
       [key |-> <<"b", "r", "0", "_">> \o c051910, name |-> <<"LG Chem">>],
       [key |-> <<"l", "o", "_">> \o c068270, name |-> <<"Celltrion">>] >>

\* what the operator types at the add prompts: a ticker and a display name
\* (None: the optional name was left empty)
AddInputs == { <<c005930, None>>, <<c000660, <<"SK hynix">> >> }

\* ---------------------------------------------------------------- the session
\* NetworkConfigManager(): the registry is what load_interfaces read
\* from a file holding the empty mapping
Init ==
    /\ interfaces = <<>>
    /\ config_file = file_of(<<>>)
    /\ backups = <<>>
    /\ since_backup = <<>>
    /\ op = "load"
    /\ ret = None
    /\ pre = <<>>
    /\ pre_file = config_file
    /\ arg = None
    /\ save_failed = FALSE
    /\ last_save = "none"
    /\ streak = [valid |-> TRUE, ids |-> <<>>]
    /\ commands = 0
    /\ df = [kind |-> "None", columns |-> "english", rows |-> <<>>]
    /\ info = <<>>
    /\ pc = "menu"
    /\ idx = 0
    /\ resolved = <<>>
    /\ output_lines = <<>>
    /\ table_lines = 0
    /\ printed = <<>>
    /\ cursor_up = 0
    /\ cycle = 0

\* choice '9' with a ticker the add prompt accepts: netmgr.add_interface(ticker, name)
AddCmd(limit) ==
    /\ pc = "menu"
    /\ commands < limit
    /\ \E inp \in AddInputs, outcome \in SaveOutcomes :
         /\ interfaces' = add_interface(interfaces, inp[1], inp[2])
         /\ config_file' = save_interfaces(config_file, interfaces', outcome)
         /\ ret' = interface_name(interfaces, inp[1])
         /\ streak' = [streak EXCEPT !.ids = IF streak.valid THEN Append(@, ret') ELSE @]
         /\ arg' = inp[1]
         /\ save_failed' = (save_failed \/ outcome # "saved")
         /\ last_save' = outcome
    /\ op' = "add"
    /\ pre' = interfaces
    /\ pre_file' = config_file
    /\ commands' = commands + 1
    /\ UNCHANGED <<backups, since_backup, resolveVars, pc, batchVars>>

Add == AddCmd(MaxCommands)

\* choice '10' with a valid selection: netmgr.remove_interface(interfaces[idx])
Remove ==
    /\ pc = "menu"
    /\ commands < MaxCommands
    /\ \E i \in 1..Len(interfaces), outcome \in SaveOutcomes :
         /\ interfaces' = remove_interface(interfaces, keys(interfaces)[i])
         /\ config_file' = save_interfaces(config_file, interfaces', outcome)
         /\ arg' = str(i)
         /\ save_failed' = (save_failed \/ outcome # "saved")
         /\ last_save' = outcome
    /\ ret' = <<"True">>
    /\ streak' = [valid |-> interfaces' = <<>>, ids |-> <<>>]
    /\ op' = "remove"
    /\ pre' = interfaces
    /\ pre_file' = config_file
    /\ commands' = commands + 1
    /\ UNCHANGED <<backups, since_backup, resolveVars, pc, batchVars>>

\* a reset that merges the defaults into the registry instead of replacing it
Reset_updates ==
    /\ pc = "menu"
    /\ commands < MaxCommands
    /\ interfaces' = interfaces \o SelectSeq(default_config,
                                          LAMBDA e : e.key \notin KeySet(interfaces))
    /\ \E outcome \in SaveOutcomes :
         /\ config_file' = save_interfaces(config_file, interfaces', outcome)
         /\ ret' = save_result(outcome)
         /\ save_failed' = (save_failed \/ outcome # "saved")
         /\ last_save' = outcome
    /\ arg' = <<"y">>
    /\ streak' = [valid |-> FALSE, ids |-> <<>>]
    /\ op' = "reset"
    /\ pre' = interfaces
    /\ pre_file' = config_file
    /\ commands' = commands + 1
    /\ UNCHANGED <<backups, since_backup, resolveVars, pc, batchVars>>

\* choice '12' confirmed with 'y': the registry becomes default_config and is saved
Reset ==
    /\ pc = "menu"
    /\ commands < MaxCommands
    /\ interfaces' = default_config
    /\ \E outcome \in SaveOutcomes :
         /\ config_file' = save_interfaces(config_file, interfaces', outcome)
         /\ ret' = save_result(outcome)
         /\ save_failed' = (save_failed \/ outcome # "saved")
         /\ last_save' = outcome
    /\ arg' = <<"y">>
    /\ streak' = [valid |-> FALSE, ids |-> <<>>]
    /\ op' = "reset"
    /\ pre' = interfaces
    /\ pre_file' = config_file
    /\ commands' = commands + 1
    /\ UNCHANGED <<backups, since_backup, resolveVars, pc, batchVars>>

\* choice '9', method '2': the condition under which the typed code is added
ticker_accepted(ticker) ==
    /\ ticker # <<>>
    /\ Len(ticker) = 6
    /\ \A i \in 1..Len(ticker) : isdigit(ticker[i])

\* codes typed at the "Enter ticker code" prompt, after strip()
TypedCodes ==
    { c005930,
      <<>>,
      <<"0", "0", "5", "9", "3">>,
      <<"0", "0", "5", "9", "3", "0", "0">>,
      <<"0", "0", "5", "9", "3", "a">>,
      <<SuperscriptTwo, SuperscriptTwo, SuperscriptTwo,
        SuperscriptTwo, SuperscriptTwo, SuperscriptTwo>> }

\* choice '9', method '2': add by ticker code, no display name given
AddByCode ==
    /\ pc = "menu"
    /\ commands < MaxCommands
    /\ \E ticker \in TypedCodes :
         /\ arg' = ticker
         /\ IF ticker_accepted(ticker)
            THEN \E outcome \in SaveOutcomes :
                   /\ interfaces' = add_interface(interfaces, ticker, None)
                   /\ config_file' = save_interfaces(config_file, interfaces', outcome)
                   /\ save_failed' = (save_failed \/ outcome # "saved")
                   /\ last_save' = outcome
                   /\ ret' = interface_name(interfaces, ticker)
                   /\ streak' = [streak EXCEPT
                                   !.ids = IF streak.valid THEN Append(@, ret') ELSE @]
                   /\ op' = "add"
            ELSE /\ ret' = None
                 /\ op' = "add_rejected"
                 /\ last_save' = "none"
                 /\ UNCHANGED <<interfaces, config_file, save_failed, streak>>
    /\ pre' = interfaces
    /\ pre_file' = config_file
    /\ commands' = commands + 1
    /\ UNCHANGED <<backups, since_backup, resolveVars, pc, batchVars>>

\* answers to "Are you sure? (y/N)" other than 'y', after strip().lower()
Refusals == { <<>>, <<"n">>, <<"y", "e", "s">> }

\* choice '12' not confirmed: "Reset cancelled"
ResetCancelled ==
    /\ pc = "menu"
    /\ commands < MaxCommands
    /\ \E confirm \in Refusals : arg' = confirm
    /\ ret' = None
    /\ op' = "reset_cancelled"
    /\ pre' = interfaces
    /\ pre_file' = config_file
    /\ commands' = commands + 1
    /\ last_save' = "none"
    /\ UNCHANGED <<interfaces, config_file, backups, since_backup, save_failed, streak,
                   resolveVars, pc, batchVars>>

\* shutil.copy2 copies the file, or raises (source gone, target not writable)
CopyOutcomes == {"copied", "raises"}

\* the backup file's name carries the time to the second: a backup made in
\* the same second as the previous one has its name and overwrites it
BackupNames == {"new", "same_second"}

\* the backup files after a copy to a file of that name
backups_after(files, file, name) ==
    IF name = "same_second" /\ files # <<>>
    THEN [files EXCEPT ![Len(files)] = file]
    ELSE Append(files, file)

\* choice '13', option '1': copy the configuration file to a new backup file
Backup ==
    /\ pc = "menu"
    /\ commands < MaxCommands
    /\ \E outcome \in CopyOutcomes, name \in BackupNames :
         /\ backups' = IF outcome = "copied"
                       THEN backups_after(backups, config_file, name)
                       ELSE backups
         /\ since_backup' = IF outcome = "copied" THEN <<config_file>> ELSE <<>>
         /\ ret' = IF outcome = "copied" THEN <<"True">> ELSE <<"False">>
    /\ arg' = None
    /\ op' = "backup"
    /\ pre' = interfaces
    /\ pre_file' = config_file
    /\ commands' = commands + 1
    /\ last_save' = "none"
    /\ UNCHANGED <<interfaces, config_file, save_failed, streak, resolveVars, pc, batchVars>>

\* a load that hands back the registry already in memory
load_interfaces_stale(file) == IF file.readable THEN <<interfaces>> ELSE <<>>

\* load_interfaces on an existing file: <<data>>, or <<>> when json.load
\* raises and the except branch calls sys.exit(1)
load_interfaces(file) == IF file.readable THEN <<file.mapping>> ELSE <<>>

\* choice '13', option '2': copy the chosen backup over the configuration
\* file and load it; SystemExit from load_interfaces is caught by neither
\* "except Exception" and ends the process
Restore ==
    /\ pc = "menu"
    /\ commands < MaxCommands
    /\ IF backups = <<>>
       THEN /\ arg' = None
            /\ ret' = None
            /\ UNCHANGED <<interfaces, config_file, streak, pc>>
       ELSE \E number \in 1..(Len(backups) + 1), outcome \in CopyOutcomes :
              /\ arg' = str(number)
              /\ IF number > Len(backups) \/ outcome = "raises"
                 THEN /\ ret' = <<"False">>
                      /\ UNCHANGED <<interfaces, config_file, streak, pc>>
                 ELSE /\ config_file' = backups[number]
                      /\ IF load_interfaces(config_file') = <<>>
                         THEN /\ ret' = <<"SystemExit">>
                              /\ pc' = "sys.exit"
                              /\ UNCHANGED <<interfaces, streak>>
                         ELSE /\ interfaces' = load_interfaces(config_file')[1]
                              /\ ret' = <<"True">>
                              /\ streak' = [valid |-> interfaces' = <<>>, ids |-> <<>>]
                              /\ UNCHANGED pc
    /\ op' = "restore"
    /\ pre' = interfaces
    /\ pre_file' = config_file
    /\ commands' = commands + 1
    /\ last_save' = "none"
    /\ UNCHANGED <<backups, since_backup, save_failed, resolveVars, batchVars>>

\* choice '0': save, then break out of the session loop
Exit ==
    /\ pc = "menu"
    /\ \E outcome \in SaveOutcomes :
         /\ config_file' = save_interfaces(config_file, interfaces, outcome)
         /\ save_failed' = (save_failed \/ outcome # "saved")
         /\ last_save' = outcome
         /\ ret' = save_result(outcome)
    /\ arg' = <<"0">>
    /\ op' = "exit"
    /\ pre' = interfaces
    /\ pre_file' = config_file
    /\ pc' = "returned"
    /\ UNCHANGED <<interfaces, backups, since_backup, streak, commands, resolveVars, batchVars>>

\* KeyboardInterrupt at a prompt of the session loop or in a summary:
\* "Network utility interrupted", then break
SessionInterrupt ==
    /\ pc \in {"menu", "summary", "continue"}
    /\ op' = "interrupted"
    /\ ret' = None
    /\ arg' = None
    /\ pre' = interfaces
    /\ pre_file' = config_file
    /\ pc' = "returned"
    /\ last_save' = "none"
    /\ UNCHANGED <<interfaces, config_file, backups, since_backup, save_failed, streak,
                   commands, resolveVars, batchVars>>

\* identifiers remove_interface is called with besides the registry's keys
RemoveArgs ==
    { <<>>,
      <<"e", "t", "h", "0", "_">> \o c005930,
      <<"e", "t", "h", "9", "_">> \o c005930 }

\* netmgr.remove_interface(interface) with any identifier: the menu's choice
\* '10' passes keys of the registry only, the method accepts any string
RemoveCall ==
    /\ pc = "menu"
    /\ commands < MaxCommands
    /\ \E interface \in KeySet(interfaces) \cup RemoveArgs :
         /\ arg' = interface
         /\ ret' = remove_returns(interfaces, interface)
         /\ interfaces' = remove_interface(interfaces, interface)
         /\ IF interface \in KeySet(interfaces)
            THEN \E outcome \in SaveOutcomes :
                   /\ config_file' = save_interfaces(config_file, interfaces', outcome)
                   /\ save_failed' = (save_failed \/ outcome # "saved")
                   /\ last_save' = outcome
                   /\ streak' = [valid |-> interfaces' = <<>>, ids |-> <<>>]
            ELSE /\ last_save' = "none"
                 /\ UNCHANGED <<config_file, save_failed, streak>>
    /\ op' = "remove_interface"
    /\ pre' = interfaces
    /\ pre_file' = config_file
    /\ commands' = commands + 1
    /\ UNCHANGED <<backups, since_backup, resolveVars, pc, batchVars>>

Next ==
    \/ Add
    \/ AddByCode
    \/ Remove
    \/ Reset
    \/ ResetCancelled
    \/ Backup
    \/ Restore
    \/ Exit
    \/ SessionInterrupt

Spec == Init /\ [][Next]_vars

\* a session that starts from a hand-written configuration file
eth0_005930 == [key |-> <<"e", "t", "h", "0", "_">> \o c005930, name |-> <<"Samsung Electronics">>]
wlan1_000660 == [key |-> <<"w", "l", "a", "n", "1", "_">> \o c000660, name |-> <<"SK hynix">>]
lo_068270 == [key |-> <<"l", "o", "_">> \o c068270, name |-> <<"Celltrion">>]
\* identifiers that do not follow the allocator's format
eth7 == [key |-> <<"e", "t", "h", "7">>, name |-> <<"no separator">>]
eth0 == [key |-> <<"e", "t", "h", "0">>, name |-> <<"no separator, number 0">>]
tun0_005930 == [key |-> <<"t", "u", "n", "0", "_">> \o c005930, name |-> <<"unknown type">>]
eth0x1_000660 == [key |-> <<"e", "t", "h", "0", "x", "1", "_">> \o c000660, name |-> <<"split number">>]

LoadedFiles ==
    { <<>>,
      <<eth0_005930, wlan1_000660>>,
      <<lo_068270, eth7, tun0_005930>>,
      <<eth0x1_000660, eth0_005930>>,
      <<eth0, lo_068270>> }

InitLoaded ==
    /\ interfaces \in LoadedFiles
    /\ config_file = file_of(interfaces)
    /\ backups = <<>>
    /\ since_backup = <<>>
    /\ op = "load"
    /\ ret = None
    /\ pre = interfaces
    /\ pre_file = config_file
    /\ arg = None
    /\ save_failed = FALSE
    /\ last_save = "none"
    /\ streak = [valid |-> interfaces = <<>>, ids |-> <<>>]
    /\ commands = 0
    /\ df = [kind |-> "None", columns |-> "english", rows |-> <<>>]
    /\ info = <<>>
    /\ pc = "menu"
    /\ idx = 0
    /\ resolved = <<>>
    /\ output_lines = <<>>
    /\ table_lines = 0
    /\ printed = <<>>
    /\ cursor_up = 0
    /\ cycle = 0

SpecLoaded == InitLoaded /\ [][Next]_vars

\* a session in which remove_interface is also called with identifiers the
\* menu would not pass, from an empty file and from one with three entries
InitRemove ==
    /\ InitLoaded
    /\ interfaces \in { <<>>, <<lo_068270, eth7, tun0_005930>> }

NextRemove == Next \/ RemoveCall

SpecRemove == InitRemove /\ [][NextRemove]_vars

\* a session of adds only
AllocAdd == AddCmd(MaxAdds)

NextAlloc == AllocAdd

SpecAlloc == Init /\ [][NextAlloc]_vars

\* ---------------------------------------------------------- status resolution
\* What get_market_ohlcv hands back: it raises, returns None, or returns a frame
\* (kind), whose columns carry the Korean names, the English names or neither,
\* and whose rows are ordered oldest first; no rows is df.empty.
Row(open, close) ==
    [Open |-> open, High |-> 220, Low |-> 0, Close |-> close, Volume |-> 3001,
     date |-> "2025-01-03"]

Rows == {Row(200, 220), Row(0, 200), Row(201, 199), Row(0, 0)}

Windows == UNION { [1..n -> Rows] : n \in 0..MaxRows }

ProviderResults ==
    { [kind |-> "raises", columns |-> "english", rows |-> <<>>],
      [kind |-> "None", columns |-> "english", rows |-> <<>>] }
    \cup [kind : {"frame"}, columns : {"korean", "english", "other"}, rows : Windows]

\* int(x) of a number: truncation toward zero, in whole units
int_of(x) == IF x >= 0 THEN x \div Unit ELSE -((-x) \div Unit)

\* round(p / q, 0) for q > 0, ties to even
round_half_even(p, q) ==
    LET f == p \div q
        r == p - f * q
    IN  IF 2 * r < q THEN f
        ELSE IF 2 * r > q THEN f + 1
        ELSE IF f % 2 = 0 THEN f ELSE f + 1

\* latest_data = df.iloc[-1]
latest_data(w) == w.rows[Len(w.rows)]

\* the baseline taken from the current row's own close when the window has one row
prev_close_own_close(w) ==
    IF Len(w.rows) > 1 THEN w.rows[Len(w.rows) - 1].Close ELSE latest_data(w).Close

\* prev_close: the prior row's close, or the current row's open
prev_close(w) ==
    IF Len(w.rows) > 1 THEN w.rows[Len(w.rows) - 1].Close ELSE latest_data(w).Open

\* change = current_price - prev_close
change(w) == latest_data(w).Close - prev_close(w)

\* round((change / prev_close) * 100, 2) if prev_close != 0 else 0, in hundredths
\* of a percent
change_percent(w) ==
    IF prev_close(w) # 0
    THEN round_half_even(change(w) * 10000, IF prev_close(w) # 0 THEN prev_close(w) ELSE 1)
    ELSE 0

\* the direction taken from a strict comparison
status_strict(w) == IF change(w) > 0 THEN "UP" ELSE "DOWN"

\* 'UP' if change >= 0 else 'DOWN'
status(w) == IF change(w) >= 0 THEN "UP" ELSE "DOWN"

\* the exceptions of the try block plus the ZeroDivisionError of an unguarded
\* division by prev_close
raises_unguarded(interface, w) ==
    \/ Len(split(interface)) < 2
    \/ w.kind = "raises"
    \/ (w.kind = "frame" /\ w.rows # <<>> /\ w.columns = "other")
    \/ (w.kind = "frame" /\ w.rows # <<>> /\ w.columns # "other" /\ prev_close(w) = 0)

\* the exceptions the try block of check_interface_status can meet: IndexError
\* of split('_')[1], an exception of the provider call, KeyError of a frame
\* without a 'Close' column
raises(interface, w) ==
    \/ Len(split(interface)) < 2
    \/ w.kind = "raises"
    \/ (w.kind = "frame" /\ w.rows # <<>> /\ w.columns = "other")

\* ticker = interface.split('_')[1], for an interface that has a '_'
ticker_of(interface) == split(interface)[2]

\* self.interfaces.get(interface, f'Unknown_{ticker}')
stock_name(d, interface) ==
    IF interface \in KeySet(d)
    THEN (CHOOSE e \in {d[i] : i \in 1..Len(d)} : e.key = interface).name
    ELSE <<"Unknown_">> \o split(interface)[2]

\* the None that check_interface_status returns; a returned record r is <<r>>
NoData == <<>>

\* check_interface_status: None, or the metrics record
check_interface_status(d, interface, w) ==
    IF raises(interface, w) THEN NoData
    ELSE IF w.kind = "None" \/ w.rows = <<>> THEN NoData
    ELSE << [interface |-> interface,
          name |-> stock_name(d, interface),
          ticker |-> ticker_of(interface),
          price |-> int_of(latest_data(w).Close),
          change |-> int_of(change(w)),
          change_percent |-> change_percent(w),
          high |-> int_of(latest_data(w).High),
          low |-> int_of(latest_data(w).Low),
          volume |-> int_of(latest_data(w).Volume),
          status |-> status(w),
          date |-> latest_data(w).date] >>

\* a detail view that drops the entry from the registry when it has no data
DetailsOf_forgets(results) ==
    /\ pc = "menu"
    /\ \E i \in 1..Len(interfaces), w \in results :
         /\ df' = w
         /\ info' = check_interface_status(interfaces, keys(interfaces)[i], w)
         /\ resolved' = <<keys(interfaces)[i]>>
         /\ interfaces' = IF info' = NoData
                          THEN DictDel(interfaces, keys(interfaces)[i])
                          ELSE interfaces
    /\ op' = "details"
    /\ ret' = None
    /\ UNCHANGED <<config_file, backups, since_backup, pre, pre_file, arg, save_failed,
                   last_save, streak, commands, pc,
                   idx, output_lines, table_lines, printed, cursor_up, cycle>>

\* choice '2' with a valid selection: show_interface_details(interfaces[idx]),
\* the provider's answer drawn from results
DetailsOf(results) ==
    /\ pc = "menu"
    /\ \E i \in 1..Len(interfaces), w \in results :
         /\ df' = w
         /\ info' = check_interface_status(interfaces, keys(interfaces)[i], w)
         /\ resolved' = <<keys(interfaces)[i]>>
    /\ op' = "details"
    /\ ret' = None
    /\ UNCHANGED <<registryVars, commands, pc,
                   idx, output_lines, table_lines, printed, cursor_up, cycle>>

Details == DetailsOf(ProviderResults)

NextResolve == Details

\* a session whose file holds an identifier with a '_' and one without
InitResolve ==
    /\ InitLoaded
    /\ interfaces = <<lo_068270, eth7, tun0_005930>>

SpecResolve == InitResolve /\ [][NextResolve]_vars

\* ------------------------------------------------------ summary and live monitor
\* the provider results the batch displays are run against
BatchResults ==
    { [kind |-> "raises", columns |-> "english", rows |-> <<>>],
      [kind |-> "None", columns |-> "english", rows |-> <<>>],
      [kind |-> "frame", columns |-> "korean", rows |-> <<>>],
      [kind |-> "frame", columns |-> "other", rows |-> <<Row(0, 200)>>],
      [kind |-> "frame", columns |-> "korean", rows |-> <<Row(0, 200), Row(200, 220)>>],
      [kind |-> "frame", columns |-> "english", rows |-> <<Row(0, 200), Row(201, 199)>>] }

\* a fixed line of the table: title, rule, column header, total
fixed_line(kind) == [kind |-> kind, interface |-> <<>>, price |-> 0, change |-> 0, status |-> ""]

\* the four lines above the rows
header_lines == <<fixed_line("title"), fixed_line("rule"), fixed_line("header"), fixed_line("rule")>>

\* the two lines below the rows
footer_lines == <<fixed_line("rule"), fixed_line("total")>>

\* the row built from a metrics record
row_line(interface, r) ==
    [kind |-> "row", interface |-> interface, price |-> r.price, change |-> r.change,
     status |-> r.status]

\* if info: output_lines.append(line)
lines_after(lines, interface, result) ==
    IF result # NoData THEN Append(lines, row_line(interface, result[1])) ELSE lines

\* a loop that stops at the first identifier without data
loop_after_break(d, i, result) == IF result = NoData THEN Len(d) ELSE i + 1

\* for interface in interfaces.keys(): the loop goes on to the next key
\* whatever the resolution returned
loop_after(d, i, result) == i + 1

\* choices '1' and '3': show_all_interfaces prints the four header lines
SummaryStart ==
    /\ pc = "menu"
    /\ pc' = "summary"
    /\ \E choice \in {"summary", "diagnostics"} : op' = choice
    /\ idx' = 0
    /\ resolved' = <<>>
    /\ output_lines' = header_lines
    /\ printed' = <<>>
    /\ cursor_up' = 0
    /\ cycle' = 0
    /\ table_lines' = 0
    /\ ret' = None
    /\ UNCHANGED <<registryVars, commands, resolveVars>>

\* one pass of the loop of show_all_interfaces
SummaryResolve ==
    /\ pc = "summary"
    /\ idx < Len(interfaces)
    /\ \E w \in BatchResults :
         /\ df' = w
         /\ info' = check_interface_status(interfaces, keys(interfaces)[idx + 1], w)
         /\ output_lines' = lines_after(output_lines, keys(interfaces)[idx + 1], info')
         /\ idx' = loop_after(interfaces, idx, info')
    /\ resolved' = Append(resolved, keys(interfaces)[idx + 1])
    /\ UNCHANGED <<registryVars, commands, op, ret, pc, table_lines, printed, cursor_up, cycle>>

\* the two footer lines of show_all_interfaces; then "Press Enter to continue..."
SummaryEnd ==
    /\ pc = "summary"
    /\ idx >= Len(interfaces)
    /\ output_lines' = output_lines \o footer_lines
    /\ printed' = Append(printed, Len(output_lines'))
    /\ cycle' = cycle + 1
    /\ pc' = "continue"
    /\ UNCHANGED <<registryVars, commands, op, ret, resolveVars, idx, resolved, table_lines,
                   cursor_up>>

\* the operator presses Enter: back to the menu
Continue ==
    /\ pc = "continue"
    /\ pc' = "menu"
    /\ UNCHANGED <<registryVars, commands, op, ret, resolveVars, batchVars>>

\* choice '6': the first render starts with the four header lines
MonitorStart ==
    /\ pc = "menu"
    /\ pc' = "monitor"
    /\ op' = "monitor"
    /\ idx' = 0
    /\ resolved' = <<>>
    /\ output_lines' = header_lines
    /\ printed' = <<>>
    /\ cursor_up' = 0
    /\ cycle' = 0
    /\ table_lines' = 0
    /\ ret' = None
    /\ UNCHANGED <<registryVars, commands, resolveVars>>

\* one pass of the loop over interfaces.keys() in the first render or a refresh
MonitorResolve ==
    /\ pc = "monitor"
    /\ idx < Len(interfaces)
    /\ \E w \in BatchResults :
         /\ df' = w
         /\ info' = check_interface_status(interfaces, keys(interfaces)[idx + 1], w)
         /\ output_lines' = lines_after(output_lines, keys(interfaces)[idx + 1], info')
         /\ idx' = loop_after(interfaces, idx, info')
    /\ resolved' = Append(resolved, keys(interfaces)[idx + 1])
    /\ UNCHANGED <<registryVars, commands, op, ret, pc, table_lines, printed, cursor_up, cycle>>

\* the footer lines are appended and the table is printed; the first render
\* alone sets table_lines = len(output_lines); then time.sleep(30)
MonitorPrint ==
    /\ pc = "monitor"
    /\ idx >= Len(interfaces)
    /\ output_lines' = output_lines \o footer_lines
    /\ printed' = Append(printed, Len(output_lines'))
    /\ table_lines' = IF cycle = 0 THEN Len(output_lines') ELSE table_lines
    /\ cycle' = cycle + 1
    /\ pc' = "waiting"
    /\ UNCHANGED <<registryVars, commands, op, ret, resolveVars, idx, resolved, cursor_up>>

\* the wait ending in an error that stops the monitor ("Monitoring error")
MonitorTimer_raises ==
    /\ pc = "waiting"
    /\ cycle <= MaxCycles
    /\ pc' = "continue"
    /\ op' = "monitor_error"
    /\ UNCHANGED <<registryVars, commands, ret, resolveVars, batchVars>>

\* time.sleep(30) returns: the cursor goes up table_lines lines and the table
\* is built anew
MonitorTimer ==
    /\ pc = "waiting"
    /\ cycle <= MaxCycles
    /\ pc' = "monitor"
    /\ idx' = 0
    /\ resolved' = <<>>
    /\ output_lines' = header_lines
    /\ cursor_up' = table_lines
    /\ UNCHANGED <<registryVars, commands, op, ret, resolveVars, table_lines, printed, cycle>>

\* the interrupt reaching the session loop's handler instead
MonitorInterrupt_unhandled ==
    /\ pc \in {"monitor", "waiting"}
    /\ pc' = "returned"
    /\ op' = "interrupted"
    /\ UNCHANGED <<registryVars, commands, ret, resolveVars, batchVars>>

\* Ctrl+C while rendering or sleeping (KeyboardInterrupt inside the monitor's
\* try block): "Real-time monitoring stopped", then "Press Enter to continue..."
MonitorInterrupt ==
    /\ pc \in {"monitor", "waiting"}
    /\ pc' = "continue"
    /\ op' = "monitor_stopped"
    /\ UNCHANGED <<registryVars, commands, ret, resolveVars, batchVars>>

NextMonitor ==
    \/ SummaryStart \/ SummaryResolve \/ SummaryEnd \/ Continue
    \/ MonitorStart \/ MonitorResolve \/ MonitorPrint \/ MonitorTimer \/ MonitorInterrupt
    \/ SessionInterrupt

SpecMonitor == InitLoaded /\ [][NextMonitor]_vars

\* choice '2' with the provider answers of the batch commands
BatchDetails == DetailsOf(BatchResults)

\* entity codes add_interface is called with: the method takes any string;
\* the search path hands it the provider's ticker as it comes
CodeArgs ==
    { c005930,
      <<>>,
      <<"0", "0", "_", "5", "9", "3">> }

\* netmgr.add_interface(ticker) with any entity code, no display name
AddCall ==
    /\ pc = "menu"
    /\ commands < MaxCommands
    /\ \E ticker \in CodeArgs, outcome \in SaveOutcomes :
         /\ arg' = ticker
         /\ interfaces' = add_interface(interfaces, ticker, None)
         /\ config_file' = save_interfaces(config_file, interfaces', outcome)
         /\ save_failed' = (save_failed \/ outcome # "saved")
         /\ last_save' = outcome
         /\ ret' = interface_name(interfaces, ticker)
         /\ streak' = [streak EXCEPT !.ids = IF streak.valid THEN Append(@, ret') ELSE @]
    /\ op' = "add"
    /\ pre' = interfaces
    /\ pre_file' = config_file
    /\ commands' = commands + 1
    /\ UNCHANGED <<backups, since_backup, resolveVars, pc, batchVars>>

\* a session that registers entity codes and looks the entries up
NextCodes == AddCall \/ BatchDetails

SpecCodes == Init /\ [][NextCodes]_vars

\* the commands that only print registry data: routing table ('4'),
\* configuration ('5'), report ('7'), system information ('8'), list ('11'),
\* show current config file ('13', option '3')
DisplayChoices == { <<"4">>, <<"5">>, <<"7">>, <<"8">>, <<"1", "1">>, <<"1", "3", ".", "3">> }

Display ==
    /\ pc = "menu"
    /\ \E choice \in DisplayChoices : arg' = choice
    /\ op' = "display"
    /\ ret' = None
    /\ UNCHANGED <<interfaces, config_file, backups, since_backup, pre, pre_file,
                   save_failed, last_save, streak, commands, resolveVars, pc, batchVars>>

\* a session of read-only commands: summary, diagnostics, detail, monitor and
\* the display commands
NextReadOnly == NextMonitor \/ BatchDetails \/ Display

\* the file holds two entries
InitReadOnly ==
    /\ InitLoaded
    /\ interfaces = <<eth0_005930, wlan1_000660>>

SpecReadOnly == InitReadOnly /\ [][NextReadOnly]_vars

\* time.sleep(30) returns after its interval: a wait does not last for ever
SpecMonitorFair == SpecMonitor /\ WF_vars(MonitorTimer)

\* ------------------------------------------------------- allocator properties
\* the part of an identifier before its first '_'
PrefixOf(id) == split(id)[1]

\* the run of digits that ends a string
RECURSIVE TrailingDigits(_)
TrailingDigits(s) ==
    IF s = <<>> \/ ~isdigit(s[Len(s)])
    THEN <<>>
    ELSE TrailingDigits(SubSeq(s, 1, Len(s) - 1)) \o <<s[Len(s)]>>

\* the numeric suffixes of the prefixes of a registry's identifiers
SuffixNumbers(d) == UNION { int(TrailingDigits(PrefixOf(k))) : k \in KeySet(d) }

\* C1: the identifier an add produces is no key of the registry it was added to
\* and its prefix is no existing entry's prefix; the add appends exactly one
\* entry under that identifier and leaves every existing entry as it was.
C1_AddIsFresh ==
    op = "add" =>
        /\ ret \notin KeySet(pre)
        /\ PrefixOf(ret) \notin {PrefixOf(k) : k \in KeySet(pre)}
        /\ Len(interfaces) = Len(pre) + 1
        /\ SubSeq(interfaces, 1, Len(pre)) = pre
        /\ interfaces[Len(interfaces)].key = ret

\* an add has acted on a registry holding an identifier without a number and
\* identifiers outside the allocator's format
C1_Witness ==
    /\ op = "add"
    /\ eth7.key \in KeySet(pre)
    /\ lo_068270.key \in KeySet(interfaces)
    /\ Len(interfaces) = 4

\* C2: from an empty registry, the k-th add in a row yields number k-1 and the
\* category at place (k-1) mod 6 of the fixed list, whatever codes are given.
C2_SequentialAllocation ==
    streak.valid =>
        \A k \in 1..Len(streak.ids) :
            PrefixOf(streak.ids[k]) =
                interface_types[((k - 1) % Len(interface_types)) + 1] \o str(k - 1)

\* seven adds in a row from empty, the seventh wrapping around to the first
\* category, two of them with the same code
C2_Witness ==
    /\ streak.valid
    /\ Len(streak.ids) = 7
    /\ PrefixOf(streak.ids[7]) = <<"e", "t", "h", "6">>
    /\ split(streak.ids[1])[2] = split(streak.ids[2])[2]

\* C3: the number an add assigns is the smallest non-negative integer that is
\* no numeric suffix of an existing prefix, and the category is
\* categories[n mod 6].
C3_SmallestUnusedNumber ==
    op = "add" =>
        \E n \in 0..Len(pre) :
            /\ n \notin SuffixNumbers(pre)
            /\ \A m \in 0..(n - 1) : m \in SuffixNumbers(pre)
            /\ PrefixOf(ret) = interface_types[(n % Len(interface_types)) + 1] \o str(n)

\* an add reuses a number that a removal freed below numbers still in use
C3_Witness ==
    /\ op = "add"
    /\ Len(pre) > 0
    /\ \E n \in SuffixNumbers(interfaces) \ SuffixNumbers(pre) :
          \E m \in SuffixNumbers(pre) : n < m

\* C4: no two entries of the registry share the prefix before '_'.
C4_UniquePrefixes ==
    \A i, j \in 1..Len(interfaces) :
        i # j => PrefixOf(interfaces[i].key) # PrefixOf(interfaces[j].key)

\* an add onto the default set: ten entries, among them wlan0, br0 and eth0
C4_Witness ==
    /\ op = "add"
    /\ Len(interfaces) = 10

\* the allocator's form: "<category><n>_<code>" with category = categories[n mod 6]
AllocatorForm(id) ==
    /\ Len(split(id)) >= 2
    /\ \E n \in 0..(Len(interfaces) + Len(default_config)) :
          PrefixOf(id) = interface_types[(n % Len(interface_types)) + 1] \o str(n)

\* C5 as stated: every entry's identifier has the allocator's form.
C5_AllAllocatorForm ==
    \A i \in 1..Len(interfaces) : AllocatorForm(interfaces[i].key)

\* C5 amended: every entry is an entry of the default set or has the allocator's form.
C5_AllocatedOrDefault ==
    \A i \in 1..Len(interfaces) :
        \/ \E j \in 1..Len(default_config) : interfaces[i] = default_config[j]
        \/ AllocatorForm(interfaces[i].key)

\* an added entry stands next to default entries that break the rule
C5_Witness ==
    /\ op = "add"
    /\ lo_068270.key \in KeySet(interfaces)
    /\ \E i \in 1..Len(interfaces) : PrefixOf(interfaces[i].key) = <<"v", "l", "a", "n", "5">>

\* -------------------------------------------------------- resolution properties
\* a resolution has just returned a metrics record
Resolved == op = "details" /\ info # NoData

\* the baseline of the claims: the prior row's close, or the only row's open
Baseline(w) == IF Len(w.rows) >= 2 THEN w.rows[Len(w.rows) - 1].Close ELSE w.rows[1].Open

\* C6: the most recent row is current, and delta is current close minus the
\* baseline (in whole units): the prior row's close when the window has two rows
\* or more, the current row's open when it has one.
C6_DeltaAgainstBaseline ==
    Resolved =>
        /\ info[1].price = int_of(df.rows[Len(df.rows)].Close)
        /\ info[1].date = df.rows[Len(df.rows)].date
        /\ info[1].change = int_of(df.rows[Len(df.rows)].Close - Baseline(df))

\* a one-row window whose open and close differ by ten whole units
C6_Witness ==
    /\ Resolved
    /\ Len(df.rows) = 1
    /\ df.rows[1].Open = 200 /\ df.rows[1].Close = 220
    /\ info[1].change = 10

\* C7: a zero baseline still yields a metrics record, with deltaPercent = 0.
C7_ZeroBaseline ==
    ( /\ op = "details"
      /\ Len(split(resolved[1])) >= 2
      /\ df.kind = "frame" /\ df.columns # "other" /\ df.rows # <<>>
      /\ Baseline(df) = 0 )
    => (info # NoData /\ info[1].change_percent = 0)

\* a two-row window whose prior close is zero and whose current close is not
C7_Witness ==
    /\ Resolved
    /\ Len(df.rows) = 2
    /\ df.rows[1].Close = 0
    /\ info[1].change = 110
    /\ info[1].change_percent = 0

\* C8 as stated: direction is UP exactly when the reported delta is >= 0.
C8_DirectionFromReportedDelta ==
    Resolved => (info[1].status = "UP" <=> info[1].change >= 0)

\* C8 amended: direction is UP exactly when current close minus baseline, before
\* truncation, is >= 0.
C8_DirectionFromRawChange ==
    Resolved => (info[1].status = "UP" <=> df.rows[Len(df.rows)].Close - Baseline(df) >= 0)

\* an unchanged close is UP
C8_Witness ==
    /\ Resolved
    /\ Len(df.rows) = 2
    /\ df.rows[1].Close = df.rows[2].Close
    /\ info[1].change = 0
    /\ info[1].status = "UP"

\* ------------------------------------------------------------- batch properties
\* for the identifier resolved last the provider raised, returned None or an
\* empty frame, or returned rows without a close column
ProviderFailed == df.kind \in {"raises", "None"} \/ df.rows = <<>> \/ df.columns = "other"

\* the running batch can take its next step
BatchCanStep == ENABLED (SummaryResolve \/ SummaryEnd \/ MonitorResolve \/ MonitorPrint)

\* a summary or a monitor cycle has run to its end
BatchDone == pc \in {"continue", "waiting"} /\ op \in {"summary", "diagnostics", "monitor"}

\* C9: a resolution the provider fails yields NoData, and the batch goes on: while
\* it runs it has resolved the first idx identifiers in registry order, each
\* once, and can take its next step; once it is done it has resolved all of them.
C9_BatchSurvivesNoData ==
    /\ (pc \in {"summary", "monitor"} /\ idx > 0 /\ ProviderFailed) => info = NoData
    /\ pc \in {"summary", "monitor"} =>
          /\ idx <= Len(interfaces)
          /\ resolved = SubSeq(keys(interfaces), 1, idx)
          /\ BatchCanStep
    /\ BatchDone => resolved = keys(interfaces)

\* a finished batch over three identifiers: the second got no data, the third did
C9_Witness ==
    /\ BatchDone
    /\ Len(interfaces) = 3
    /\ Len(output_lines) = 8
    /\ output_lines[5].interface = keys(interfaces)[1]
    /\ output_lines[6].interface = keys(interfaces)[3]

\* C10: every monitor cycle prints as many lines as the first: the fixed lines
\* plus one row per registered identifier.
C10_SameLineCount ==
    op = "monitor" =>
        \A c \in 1..Len(printed) :
            /\ printed[c] = printed[1]
            /\ printed[c] = Len(header_lines) + Len(interfaces) + Len(footer_lines)


\* ---------------------------------------------------------------- claim C11
\* C11: at every monitor refresh the cursor is moved up by exactly the number
\* of lines the immediately preceding cycle printed, and the recorded line
\* count is the count of the latest finished cycle, not that of the first one.
C11_CursorUpByPrecedingCycle ==
    /\ (pc = "monitor" /\ cycle >= 1) => cursor_up = printed[Len(printed)]
    /\ (pc = "waiting") => table_lines = printed[Len(printed)]


\* ---------------------------------------------------------------- claim C12
\* C12: the monitor is left (from Rendering or Waiting) only into Stopped: the
\* session is at the "Press Enter" prompt, not terminated, and that step
\* resolves no identifier, prints no table line and changes neither the
\* registry nor the file; from there the session returns to the menu, still
\* without resolving, printing or changing anything.
C12_InterruptStopsMonitor ==
    /\ [][(pc \in {"monitor", "waiting"} /\ pc' \notin {"monitor", "waiting"})
            => /\ pc' = "continue"
               /\ op' = "monitor_stopped"
               /\ UNCHANGED <<resolved, output_lines, printed, interfaces, config_file>>]_vars
    /\ [][(op = "monitor_stopped" /\ pc = "continue" /\ op' = op)
            => /\ pc' = "menu"
               /\ UNCHANGED <<resolved, output_lines, printed, interfaces, config_file>>]_vars
    /\ []((op = "monitor_stopped" /\ pc = "continue") => ENABLED Continue)

\* the monitor was interrupted while rendering its second cycle, with one of
\* several identifiers resolved, and the session is back at the menu
C12_Witness ==
    /\ op = "monitor_stopped"
    /\ pc = "menu"
    /\ cycle = 1
    /\ Len(resolved) = 1
    /\ Len(interfaces) > 1
    /\ config_file = file_of(interfaces)


\* ---------------------------------------------------------------- claim C13
\* C13: provided no save of the session has failed, at every menu prompt the
\* persisted file is readable and its mapping equals the in-memory registry:
\* the same keys with the same names in the same order.
C13_FileEqualsRegistryAtMenu ==
    (pc = "menu" /\ ~save_failed) =>
        /\ config_file.readable
        /\ config_file.mapping = interfaces

\* the menu after a backup, a mutation and a restore that undid the mutation
C13_Witness ==
    /\ pc = "menu"
    /\ ~save_failed
    /\ op = "restore"
    /\ ret = <<"True">>
    /\ interfaces # pre
    /\ commands = 3


\* ---------------------------------------------------------------- claim C14
\* C14: whenever the session loop has ended by normal return (menu choice 0 or
\* an operator interrupt at the menu), the last thing the session did was a
\* final save, which completed or failed and was reported.
C14_FinalSaveBeforeReturn ==
    (pc = "returned") => (op = "exit" /\ ret \in {<<"True">>, <<"False">>})


\* ---------------------------------------------------------------- claim C15
\* C15: after a successful startup load the session ends only on menu choice 0
\* or on an operator interrupt: every other command, whatever fails in it
\* (save, provider, input, backup copy, restore of a missing or corrupt
\* backup), is followed by the menu.
C15_OnlyExitOrInterruptEndsSession ==
    (pc \notin {"menu", "summary", "monitor", "waiting", "continue"})
        => (pc = "returned" /\ op \in {"exit", "interrupted"})


C17_BackupRestoreRoundTrip ==
    /\ op = "backup" => (interfaces = pre /\ config_file = pre_file)
    /\ (/\ op = "restore"
        /\ ret = <<"True">>
        /\ arg = str(Len(backups))
        /\ since_backup # <<>>)
       => /\ config_file = since_backup[1]
          /\ config_file.readable
          /\ interfaces = since_backup[1].mapping

\* a backup of a non-empty registry, a mutation, and the restore that undid it
C17_Witness ==
    /\ op = "restore"
    /\ ret = <<"True">>
    /\ arg = str(Len(backups))
    /\ since_backup # <<>>
    /\ interfaces # <<>>
    /\ interfaces # pre
    /\ config_file # pre_file


\* ---------------------------------------------------------------- claim C18
\* a string of exactly 6 decimal digits
SixDecimalDigits(ticker) ==
    Len(ticker) = 6 /\ \A i \in 1..Len(ticker) : ticker[i] \in Digits

\* C18: on the add-by-code path a code that is not exactly 6 decimal digits is
\* rejected: no identifier is allocated, the registry and the file are
\* unchanged and the session is at the menu; a code of exactly 6 decimal
\* digits is added under the identifier the allocator builds for it.
C18_OnlySixDecimalDigitsAdded ==
    (op \in {"add", "add_rejected"} /\ arg \in TypedCodes) =>
        IF SixDecimalDigits(arg)
        THEN /\ op = "add"
             /\ ret = interface_name(pre, arg)
             /\ ret \in KeySet(interfaces)
        ELSE /\ op = "add_rejected"
             /\ ret = None
             /\ interfaces = pre
             /\ config_file = pre_file
             /\ pc = "menu"


\* ---------------------------------------------------------------- claim C19
\* an identifier without the '_' separator
NoSeparator(id) == \A i \in 1..Len(id) : id[i] # "_"

\* an identifier whose part before the first '_' (all of it when there is no
\* '_') yields no number
NoNumber(id) == int(digits_of(PrefixOf(id))) = {}

\* C19 as stated: an add takes place whatever the registry holds, and for
\* every existing identifier that has no '_' or whose prefix has no number the
\* identifier the add returns is the one it would return were that entry
\* absent.
C19_MalformedCountsAsAbsent ==
    op = "add" =>
        /\ ret \in KeySet(interfaces)
        /\ \A i \in 1..Len(pre) :
             (NoSeparator(pre[i].key) \/ NoNumber(pre[i].key))
                 => ret = interface_name(DictDel(pre, pre[i].key), arg)

\* C19: an add takes place whatever the registry holds; an existing identifier
\* whose part before the first '_' (the whole identifier when it has no '_')
\* yields no number contributes nothing: the add returns the identifier it
\* would return were that entry absent; an identifier of a known category
\* that has no '_' but contains decimal digits is read whole, and the number
\* its digits spell is used: the add does not choose it.
C19_NumberlessCountsAsAbsent ==
    op = "add" =>
        /\ ret \in KeySet(interfaces)
        /\ \A i \in 1..Len(pre) :
             /\ NoNumber(pre[i].key)
                  => ret = interface_name(DictDel(pre, pre[i].key), arg)
             /\ (/\ NoSeparator(pre[i].key)
                 /\ ~NoNumber(pre[i].key)
                 /\ \E t \in 1..Len(interface_types) :
                        startswith(pre[i].key, interface_types[t]))
                  => int(TrailingDigits(PrefixOf(ret))) # int(digits_of(pre[i].key))

\* an add to a registry that holds an identifier without number (lo_068270)
\* and one without separator whose number the add had to step over (eth0)
C19_Witness ==
    /\ op = "add"
    /\ \E i \in 1..Len(pre) : NoNumber(pre[i].key)
    /\ \E i \in 1..Len(pre) :
         /\ NoSeparator(pre[i].key)
         /\ ret # interface_name(DictDel(pre, pre[i].key), arg)


\* ---------------------------------------------------------------- claim C20
\* C20: the monitor goes Idle -> Rendering -> Waiting -> Rendering ...: a
\* render begins only from the menu (the first one, with nothing printed yet)
\* or from a wait (a later one, one wait per finished cycle before it); a
\* render that ends is followed by a wait; a wait ends in a render, which it
\* can always do and, unless the interrupt arrives, does; and the monitor is
\* left only through the operator's interrupt.
C20_MonitorCycle ==
    /\ [][(pc # "monitor" /\ pc' = "monitor")
            => \/ (pc = "menu" /\ cycle' = 0 /\ printed' = <<>>)
               \/ (pc = "waiting" /\ cycle' >= 1 /\ Len(printed') = cycle')]_vars
    /\ [][(pc = "monitor" /\ pc' # "monitor")
            => (pc' = "waiting" \/ MonitorInterrupt)]_vars
    /\ [][(pc = "waiting" /\ pc' # "waiting")
            => (pc' = "monitor" \/ MonitorInterrupt)]_vars
    /\ []((pc = "waiting" /\ cycle <= MaxCycles) => ENABLED MonitorTimer)
    /\ (pc = "waiting" /\ cycle <= MaxCycles) ~> (pc = "monitor" \/ op = "monitor_stopped")

\* the third render is under way: two cycles were printed and two waits passed
C20_Witness ==
    /\ pc = "monitor"
    /\ op = "monitor"
    /\ cycle = 2
    /\ Len(printed) = 2
    /\ Len(resolved) >= 1


\* ---------------------------------------------------------------- claim C21
\* the mapping d without its i-th entry
DeletedAt(d, i) == SubSeq(d, 1, i - 1) \o SubSeq(d, i + 1, Len(d))

\* C21: remove_interface on an identifier that is no key returns False, makes
\* no save and leaves registry and file as they were; on a key it returns
\* True, deletes that one entry, keeps every other entry with its key, name
\* and relative order, and calls save (a save that succeeds writes the new
\* registry). No command renames a key in place: whatever the last command
\* did, the registry is what it was, or that plus one appended entry under a
\* new key (add), or that minus one entry (remove), or a whole mapping put in
\* its place (the default set on reset, the backup's mapping on restore).
C21_RemoveFrame ==
    /\ op = "remove_interface" =>
         IF arg \in KeySet(pre)
         THEN /\ ret = <<"True">>
              /\ \E i \in 1..Len(pre) : pre[i].key = arg /\ interfaces = DeletedAt(pre, i)
              /\ last_save # "none"
              /\ last_save = "saved" => config_file = file_of(interfaces)
         ELSE /\ ret = <<"False">>
              /\ last_save = "none"
              /\ interfaces = pre
              /\ config_file = pre_file
    /\ op = "remove" =>
         /\ ret = <<"True">>
         /\ \E i \in 1..Len(pre) : arg = str(i) /\ interfaces = DeletedAt(pre, i)
         /\ last_save # "none"
         /\ last_save = "saved" => config_file = file_of(interfaces)
    /\ \/ interfaces = pre
       \/ /\ op = "add"
          /\ Len(interfaces) = Len(pre) + 1
          /\ SubSeq(interfaces, 1, Len(pre)) = pre
          /\ interfaces[Len(interfaces)].key \notin KeySet(pre)
       \/ /\ op \in {"remove", "remove_interface"}
          /\ \E i \in 1..Len(pre) : interfaces = DeletedAt(pre, i)
       \/ (op = "reset" /\ interfaces = default_config)
       \/ (op = "restore" /\ config_file.readable /\ interfaces = config_file.mapping)

\* the middle entry of three was removed and saved, the other two kept their
\* order, and then remove_interface was called with an identifier that is no
\* key
C21_Witness ==
    /\ op = "remove_interface"
    /\ arg \notin KeySet(pre)
    /\ ret = <<"False">>
    /\ interfaces = <<lo_068270, tun0_005930>>
    /\ config_file = file_of(interfaces)


\* ---------------------------------------------------------------- claim C22
\* what the read-only commands leave in op
ReadOnlyOps == {"summary", "diagnostics", "details", "monitor", "monitor_stopped", "display"}

\* C22: no step of a read-only command (summary, diagnostics, detail, live
\* monitor and its cycles, the display commands) changes the in-memory
\* registry or the persisted file, whatever the provider returns.
C22_ReadOnlyCommands ==
    [][op' \in ReadOnlyOps => UNCHANGED <<interfaces, config_file>>]_vars

\* a monitor ran two cycles or more, a display command and a detail view that
\* got data followed, and the registry and the file are those of the load
C22_Witness ==
    /\ op = "details"
    /\ info # NoData
    /\ cycle >= 2
    /\ arg \in DisplayChoices
    /\ interfaces = pre
    /\ config_file = file_of(interfaces)


\* ---------------------------------------------------------------- claim C23
\* C23: the entity code that status resolution extracts from an identifier
\* add_interface built from the code c is c: for the identifier an add just
\* returned, and for any entry a detail view got data for (an entry added
\* without display name carries its code in the name add_interface gave it).
C23_CodeRoundTrip ==
    /\ op = "add" => (Len(split(ret)) >= 2 /\ ticker_of(ret) = arg)
    /\ (op = "details" /\ info # NoData)
         => info[1].name = display_name(info[1].ticker, None)

====
